---- MODULE Spec2Model ----
(***************************************************************************)
(* Model of the goldmark-pipefence extension (src/extension.go).           *)
(*                                                                         *)
(* The state is the parsed document tree (goldmark ast nodes with their    *)
(* parent / sibling / child links), the source buffer, the list collected  *)
(* by transformer.Transform, the position of the running ast.Walk, and the *)
(* output written during rendering.                                        *)
(***************************************************************************)
EXTENDS Integers, Sequences, FiniteSets, TLC

\* Bounds of the model.
MaxTop == 2       \* most blocks directly under the document
MaxNested == 1    \* most blocks inside one container block
MaxRuns == 2      \* most Transform passes over one tree

Nil == 0          \* the nil ast.Node
Doc == 1          \* the *ast.Document handed to Transform

(***************************************************************************)
(* Bytes are one-character strings, byte slices are sequences of them.     *)
(***************************************************************************)
Banana == <<"b", "a", "n", "a", "n", "a">>
Unknown == <<"u", "n", "k", "n", "o", "w", "n">>
Boom == <<"b", "o", "o", "m">>

RECURSIVE Concat(_)
Concat(ss) == IF ss = <<>> THEN <<>> ELSE Head(ss) \o Concat(Tail(ss))

\* bytes.ReplaceAll(a, "o", "a") of the test's "banana" PipeFunc.
ReplaceOA(a) == [i \in 1..Len(a) |-> IF a[i] = "o" THEN "a" ELSE a[i]]

\* A PipeFunc returns ([]byte, error): err = "" stands for a nil error.
PipeBanana(a) == [out |-> ReplaceOA(a), err |-> ""]
PipeBoom(a) == [out |-> <<>>, err |-> "exit status 1"]

\* Extension.PipeFuncs: the registry, keyed by language tag.
PipeFuncKeys == {Banana, Boom}
CallPipeFunc(key, a) == IF key = Banana THEN PipeBanana(a) ELSE PipeBoom(a)

\* _, ok := t.ext.PipeFuncs[string(lang)]
MutHasPipeFuncAny(lang) == PipeFuncKeys # {}
HasPipeFunc(lang) == lang \in PipeFuncKeys

(***************************************************************************)
(* Input documents.  A document is a sequence of blocks; a block is a      *)
(* paragraph, a fenced code block with an info string, or a container      *)
(* (block quote) holding paragraphs and fenced code blocks.                *)
(***************************************************************************)
Infos == {Banana, Unknown \o <<" ">> \o Banana, Boom}

Leaves == {[kind |-> "Paragraph", info |-> <<>>, kids |-> <<>>]}
          \cup {[kind |-> "FencedCodeBlock", info |-> i, kids |-> <<>>] : i \in Infos}

SeqsUpTo(S, lo, hi) == UNION {[1..n -> S] : n \in lo..hi}

Containers == {[kind |-> "Blockquote", info |-> <<>>, kids |-> ks] :
                  ks \in SeqsUpTo(Leaves, 1, MaxNested)}

Documents == SeqsUpTo(Leaves \cup Containers, 0, MaxTop)

\* The content lines of the k-th fenced block of a document.
BodyLines(k) ==
    CASE k % 3 = 1 -> << <<"f", "o", "o", "\n">> >>
      [] k % 3 = 2 -> << <<"o", "<", "\n">>, <<"b", "&", "\n">> >>
      [] OTHER -> <<>>

\* Pre-order list of the blocks of a document, each with its parent's id.
RECURSIVE Flatten(_, _, _)
Flatten(items, parent, base) ==
    IF items = <<>> THEN <<>>
    ELSE LET it == Head(items)
             me == base + 1
             sub == Flatten(it.kids, me, me)
             own == <<[kind |-> it.kind, info |-> it.info, parent |-> parent, id |-> me]>>
         IN own \o sub \o Flatten(Tail(items), parent, me + Len(sub))

FlatDoc(d) == Flatten(d, Doc, Doc)

\* Number of fenced blocks among the first i flattened blocks.
RECURSIVE FencedUpTo(_, _)
FencedUpTo(flat, i) ==
    IF i = 0 THEN 0
    ELSE FencedUpTo(flat, i - 1) + (IF flat[i].kind = "FencedCodeBlock" THEN 1 ELSE 0)

\* The bytes a fenced block contributes to the source buffer: its info
\* string, a newline, and its content lines.
Chunk(flat, i) ==
    IF flat[i].kind = "FencedCodeBlock"
    THEN flat[i].info \o <<"\n">> \o Concat(BodyLines(FencedUpTo(flat, i)))
    ELSE <<>>

RECURSIVE SourceUpTo(_, _)
SourceUpTo(flat, i) == IF i = 0 THEN <<>> ELSE SourceUpTo(flat, i - 1) \o Chunk(flat, i)

\* text.Segment values (start, stop) of successive lines starting at off.
RECURSIVE LineSegments(_, _)
LineSegments(ls, off) ==
    IF ls = <<>> THEN <<>>
    ELSE <<[start |-> off, stop |-> off + Len(Head(ls))]>>
         \o LineSegments(Tail(ls), off + Len(Head(ls)))

NoSegment == [start |-> 0, stop |-> 0]

ChildIds(flat, p) == {flat[i].id : i \in {j \in 1..Len(flat) : flat[j].parent = p}}
MaxOf(S) == CHOOSE x \in S : \A y \in S : y <= x
MinOf(S) == CHOOSE x \in S : \A y \in S : x <= y

\* The tree the parser hands to Transform for document d.
ParseTree(d) ==
    LET flat == FlatDoc(d)
        kids(p) == ChildIds(flat, p)
        first(p) == IF kids(p) = {} THEN Nil ELSE MinOf(kids(p))
        last(p) == IF kids(p) = {} THEN Nil ELSE MaxOf(kids(p))
        prevOf(n, p) == LET s == {k \in kids(p) : k < n} IN IF s = {} THEN Nil ELSE MaxOf(s)
        nextOf(n, p) == LET s == {k \in kids(p) : k > n} IN IF s = {} THEN Nil ELSE MinOf(s)
        node(n) ==
            IF n = Doc
            THEN [kind |-> "Document", parent |-> Nil, prev |-> Nil, next |-> Nil,
                  firstChild |-> first(Doc), lastChild |-> last(Doc),
                  childCount |-> Cardinality(kids(Doc)),
                  info |-> NoSegment, lines |-> <<>>, orig |-> Doc]
            ELSE LET i == n - 1
                     f == flat[i]
                     off == Len(SourceUpTo(flat, i - 1))
                     fenced == f.kind = "FencedCodeBlock"
                 IN [kind |-> f.kind, parent |-> f.parent,
                     prev |-> prevOf(n, f.parent), next |-> nextOf(n, f.parent),
                     firstChild |-> first(n), lastChild |-> last(n),
                     childCount |-> Cardinality(kids(n)),
                     info |-> IF fenced THEN [start |-> off, stop |-> off + Len(f.info)]
                              ELSE NoSegment,
                     lines |-> IF fenced
                               THEN LineSegments(BodyLines(FencedUpTo(flat, i)),
                                                 off + Len(f.info) + 1)
                               ELSE <<>>,
                     orig |-> n]
    IN [n \in 1..(Len(flat) + 1) |-> node(n)]

ParseSource(d) == LET flat == FlatDoc(d) IN SourceUpTo(flat, Len(flat))

(***************************************************************************)
(* Node accessors.                                                         *)
(***************************************************************************)
\* text.Segment.Value(src): src[start:stop].
Value(src, seg) == SubSeq(src, seg.start + 1, seg.stop)

\* ast.FencedCodeBlock.Language(source): the info string up to its first
\* space.
Language(ns, src, n) ==
    LET info == Value(src, ns[n].info)
        spaces == {i \in 1..Len(info) : info[i] = " "}
    IN IF spaces = {} THEN info ELSE SubSeq(info, 1, MinOf(spaces) - 1)

\* pfBlock.RawContent(src): the content lines written to one buffer.
RawContent(ns, src, n) ==
    LET lines == ns[n].lines
    IN Concat([i \in 1..Len(lines) |-> Value(src, lines[i])])

\* node.(*ast.FencedCodeBlock): the type assertion of the Walk callback.  A
\* *pfBlock embeds a FencedCodeBlock but is a different dynamic type.
MutIsFencedCodeBlockByEmbedding(ns, n) == ns[n].kind \in {"FencedCodeBlock", "PipefenceBlock"}
IsFencedCodeBlock(ns, n) == ns[n].kind = "FencedCodeBlock"

\* &pfBlock{FencedCodeBlock: *fb}: a copy of every field of fb, links
\* included, whose Kind() is pfKind.
MutNewPfBlockNoLines(ns, fb) == [ns[fb] EXCEPT !.kind = "PipefenceBlock", !.lines = <<>>]
NewPfBlock(ns, fb) == [ns[fb] EXCEPT !.kind = "PipefenceBlock"]

(***************************************************************************)
(* ast.BaseNode tree edits.  n is the receiver, whose firstChild,          *)
(* lastChild and childCount fields are the ones written; self is the node  *)
(* passed as the parent.                                                   *)
(***************************************************************************)
RemoveChild(ns, n, self, v) ==
    IF ns[v].parent # self THEN ns
    ELSE LET prev == ns[v].prev
             next == ns[v].next
             s1 == [ns EXCEPT ![n].childCount = @ - 1]
             s2 == IF prev # Nil THEN [s1 EXCEPT ![prev].next = next]
                   ELSE [s1 EXCEPT ![n].firstChild = next]
             s3 == IF next # Nil THEN [s2 EXCEPT ![next].prev = prev]
                   ELSE [s2 EXCEPT ![n].lastChild = prev]
         IN [s3 EXCEPT ![v].parent = Nil, ![v].prev = Nil, ![v].next = Nil]

EnsureIsolated(ns, v) ==
    LET p == ns[v].parent
    IN IF p # Nil THEN RemoveChild(ns, p, p, v) ELSE ns

\* v1 is never nil at the call site, so the AppendChild branch is left out.
InsertBefore(ns, n, self, v1, insertee) ==
    LET s0 == [ns EXCEPT ![n].childCount = @ + 1]
        s1 == EnsureIsolated(s0, insertee)
    IN IF s1[v1].parent # self THEN s1
       ELSE LET prev == s1[v1].prev
                s2 == [s1 EXCEPT ![insertee].parent = self, ![insertee].next = v1]
                s3 == IF prev # Nil
                      THEN [s2 EXCEPT ![prev].next = insertee, ![insertee].prev = prev]
                      ELSE [s2 EXCEPT ![n].firstChild = insertee, ![insertee].prev = Nil]
            IN [s3 EXCEPT ![v1].prev = insertee]

ReplaceChild(ns, n, self, v1, insertee) ==
    RemoveChild(InsertBefore(ns, n, self, v1, insertee), n, self, v1)

\* One iteration of the loop over fencedBlocks in Transform.
ReplaceLoopBody(ns, src, fb) ==
    IF ~HasPipeFunc(Language(ns, src, fb)) THEN ns
    ELSE LET parent == ns[fb].parent
             wrapper == Len(ns) + 1
         IN ReplaceChild(Append(ns, NewPfBlock(ns, fb)), Doc, parent, fb, wrapper)

\* The nil error; a non-nil error of the render hook carries the language
\* tag and the transformer's own error.
NoError == [lang |-> <<>>, cause |-> ""]

(***************************************************************************)
(* ast.Walk: the position of a walk is the recursion stack of walkHelper   *)
(* and whether the next call of the walker on the top node is the entering *)
(* or the leaving one.                                                     *)
(***************************************************************************)
WalkAdvance(ns, stk, ent, status, e) ==
    LET top == stk[Len(stk)]
        rest == SubSeq(stk, 1, Len(stk) - 1)
    IN IF e # NoError \/ status = "WalkStop"
       THEN [stack |-> <<>>, entering |-> FALSE]
       ELSE IF ent
       THEN IF status # "WalkSkipChildren" /\ ns[top].firstChild # Nil
            THEN [stack |-> Append(stk, ns[top].firstChild), entering |-> TRUE]
            ELSE [stack |-> stk, entering |-> FALSE]
       ELSE IF rest # <<>> /\ ns[top].next # Nil
            THEN [stack |-> Append(rest, ns[top].next), entering |-> TRUE]
            ELSE [stack |-> rest, entering |-> FALSE]

(***************************************************************************)
(* Rendering.                                                              *)
(***************************************************************************)
\* util.EscapeHTML of the host's default renderer.
Escape(bs) ==
    [i \in 1..Len(bs) |-> CASE bs[i] = "<" -> "&lt;"
                            [] bs[i] = "&" -> "&amp;"
                            [] OTHER -> bs[i]]

\* The host's default renderer funcs, as the tests of this package show
\* them: what is written for node n on entering and on leaving it.
HostRender(ns, src, n, ent) ==
    CASE ns[n].kind = "Paragraph" ->
            IF ent THEN <<"<p>", "lolcat">> ELSE <<"</p>\n">>
      [] ns[n].kind = "Blockquote" ->
            IF ent THEN <<"<blockquote>\n">> ELSE <<"</blockquote>\n">>
      [] ns[n].kind = "FencedCodeBlock" ->
            IF ent
            THEN <<"<pre><code class=\"language-">> \o Escape(Language(ns, src, n))
                 \o <<"\">">>
                 \o Escape(Concat([i \in 1..Len(ns[n].lines) |-> Value(src, ns[n].lines[i])]))
            ELSE <<"</code></pre>\n">>
      [] OTHER -> <<>>

\* renderFenced, the hook registered for pfKind: its return values, whether
\* it called the PipeFunc, and what it wrote.
MutRenderFencedIgnoresError(ns, src, node, ent) ==
    LET lang == Language(ns, src, node)
        r == CallPipeFunc(lang, RawContent(ns, src, node))
    IN IF ~HasPipeFunc(lang)
       THEN [status |-> "WalkContinue", err |-> NoError, branch |-> "miss",
             called |-> FALSE, wrote |-> FALSE, out |-> <<>>]
       ELSE IF ~ent
       THEN [status |-> "WalkContinue", err |-> NoError, branch |-> "leave",
             called |-> FALSE, wrote |-> FALSE, out |-> <<>>]
       ELSE [status |-> "WalkSkipChildren", err |-> NoError, branch |-> "ok",
             called |-> TRUE, wrote |-> TRUE, out |-> r.out]
RenderFenced(ns, src, node, ent) ==
    LET lang == Language(ns, src, node)
        r == CallPipeFunc(lang, RawContent(ns, src, node))
    IN IF ~HasPipeFunc(lang)
       THEN [status |-> "WalkContinue", err |-> NoError, branch |-> "miss",
             called |-> FALSE, wrote |-> FALSE, out |-> <<>>]
       ELSE IF ~ent
       THEN [status |-> "WalkContinue", err |-> NoError, branch |-> "leave",
             called |-> FALSE, wrote |-> FALSE, out |-> <<>>]
       ELSE IF r.err # ""
       THEN [status |-> "WalkStop", err |-> [lang |-> lang, cause |-> r.err],
             branch |-> "fail", called |-> TRUE, wrote |-> FALSE, out |-> <<>>]
       ELSE [status |-> "WalkSkipChildren", err |-> NoError, branch |-> "ok",
             called |-> TRUE, wrote |-> TRUE, out |-> r.out]

(***************************************************************************)
(* State.                                                                  *)
(***************************************************************************)
VARIABLES
    source,        \* reader.Source(): the source buffer
    parsed,        \* the tree as the parser built it (never changed)
    nodes,         \* the tree: node id -> fields
    pc,            \* "parsed", "walk", "replace", "render", "done", "failed", "fatal"
    stack,         \* recursion stack of the running ast.Walk
    entering,      \* the next walker call on the top of the stack is the entering one
    fencedBlocks,  \* Transform's collected list
    idx,           \* position of Transform's loop over fencedBlocks
    runs,          \* completed Transform passes
    w,             \* writes to the BufWriter, in order: [node, bytes]
    calls,         \* PipeFunc invocations, in order: [node, lang, arg]
    err,           \* the error the render walk returned
    last           \* the most recent walker call and what it returned

vars == <<source, parsed, nodes, pc, stack, entering, fencedBlocks, idx, runs,
          w, calls, err, last>>

NoCall == [node |-> Nil, entering |-> FALSE, status |-> "WalkContinue",
           err |-> NoError, branch |-> "none"]

Init ==
    \E d \in Documents :
        /\ source = ParseSource(d)
        /\ parsed = ParseTree(d)
        /\ nodes = ParseTree(d)
        /\ pc = "parsed"
        /\ stack = <<>>
        /\ entering = FALSE
        /\ fencedBlocks = <<>>
        /\ idx = 1
        /\ runs = 0
        /\ w = <<>>
        /\ calls = <<>>
        /\ err = NoError
        /\ last = NoCall

\* Transform is entered: an empty list, and ast.Walk starts at doc.
TransformBegin ==
    /\ pc = "parsed"
    /\ runs < MaxRuns
    /\ pc' = "walk"
    /\ stack' = <<Doc>>
    /\ entering' = TRUE
    /\ fencedBlocks' = <<>>
    /\ idx' = 1
    /\ last' = NoCall
    /\ UNCHANGED <<source, parsed, nodes, runs, w, calls, err>>

\* Where Transform goes once its loop has no more elements: it returns.
AfterLoop(list, i, r) ==
    IF i > Len(list) THEN [pc |-> "parsed", runs |-> r + 1] ELSE [pc |-> "replace", runs |-> r]

\* A callback that replaces a matching block as soon as it meets it.
MutTransformWalkEager ==
    /\ pc = "walk"
    /\ LET node == stack[Len(stack)]
           ret == [node |-> node, entering |-> entering, status |-> "WalkContinue",
                   err |-> NoError, branch |-> "none"]
           edited == IF IsFencedCodeBlock(nodes, node)
                     THEN ReplaceLoopBody(nodes, source, node) ELSE nodes
           pos == WalkAdvance(edited, stack, entering, ret.status, ret.err)
       IN /\ last' = ret
          /\ nodes' = edited
          /\ stack' = pos.stack
          /\ entering' = pos.entering
          /\ pc' = IF pos.stack # <<>> THEN "walk" ELSE "parsed"
          /\ runs' = IF pos.stack # <<>> THEN runs ELSE runs + 1
    /\ UNCHANGED <<source, parsed, fencedBlocks, idx, w, calls, err>>

\* One call of the callback Transform passes to ast.Walk, and the walk's
\* move to its next call.  When the walk returns, a non-nil error is fatal;
\* otherwise the loop over fencedBlocks starts.
TransformWalkCallback ==
    /\ pc = "walk"
    /\ LET node == stack[Len(stack)]
           ret == [node |-> node, entering |-> entering, status |-> "WalkContinue",
                   err |-> NoError, branch |-> "none"]
           list == IF IsFencedCodeBlock(nodes, node)
                   THEN Append(fencedBlocks, node) ELSE fencedBlocks
           pos == WalkAdvance(nodes, stack, entering, ret.status, ret.err)
           nxt == AfterLoop(list, 1, runs)
       IN /\ last' = ret
          /\ fencedBlocks' = list
          /\ stack' = pos.stack
          /\ entering' = pos.entering
          /\ pc' = IF pos.stack # <<>> THEN "walk"
                   ELSE IF ret.err # NoError THEN "fatal" ELSE nxt.pc
          /\ runs' = IF pos.stack # <<>> \/ ret.err # NoError THEN runs ELSE nxt.runs
    /\ UNCHANGED <<source, parsed, nodes, idx, w, calls, err>>

\* One iteration of Transform's loop over fencedBlocks.
TransformReplace ==
    /\ pc = "replace"
    /\ idx <= Len(fencedBlocks)
    /\ nodes' = ReplaceLoopBody(nodes, source, fencedBlocks[idx])
    /\ idx' = idx + 1
    /\ pc' = AfterLoop(fencedBlocks, idx + 1, runs).pc
    /\ runs' = AfterLoop(fencedBlocks, idx + 1, runs).runs
    /\ UNCHANGED <<source, parsed, stack, entering, fencedBlocks, w, calls, err, last>>

\* The host's renderer starts its walk at the document.
RenderBegin ==
    /\ pc = "parsed"
    /\ runs >= 1
    /\ pc' = "render"
    /\ stack' = <<Doc>>
    /\ entering' = TRUE
    /\ last' = NoCall
    /\ UNCHANGED <<source, parsed, nodes, fencedBlocks, idx, runs, w, calls, err>>

\* The render walk calls renderFenced for a node of kind pfKind.
RenderPipefence ==
    /\ pc = "render"
    /\ LET node == stack[Len(stack)]
           r == RenderFenced(nodes, source, node, entering)
           pos == WalkAdvance(nodes, stack, entering, r.status, r.err)
       IN /\ nodes[node].kind = "PipefenceBlock"
          /\ last' = [node |-> node, entering |-> entering, status |-> r.status,
                      err |-> r.err, branch |-> r.branch]
          /\ calls' = IF r.called
                      THEN Append(calls, [node |-> node,
                                          lang |-> Language(nodes, source, node),
                                          arg |-> RawContent(nodes, source, node)])
                      ELSE calls
          /\ w' = IF r.wrote THEN Append(w, [node |-> node, bytes |-> r.out]) ELSE w
          /\ err' = r.err
          /\ stack' = pos.stack
          /\ entering' = pos.entering
          /\ pc' = IF pos.stack # <<>> THEN "render"
                   ELSE IF r.err # NoError THEN "failed" ELSE "done"
    /\ UNCHANGED <<source, parsed, nodes, fencedBlocks, idx, runs>>

\* The render walk calls the host's default func for any other node.
RenderDefault ==
    /\ pc = "render"
    /\ LET node == stack[Len(stack)]
           out == HostRender(nodes, source, node, entering)
           pos == WalkAdvance(nodes, stack, entering, "WalkContinue", NoError)
       IN /\ nodes[node].kind # "PipefenceBlock"
          /\ last' = [node |-> node, entering |-> entering, status |-> "WalkContinue",
                      err |-> NoError, branch |-> "host"]
          /\ w' = IF out # <<>> THEN Append(w, [node |-> node, bytes |-> out]) ELSE w
          /\ stack' = pos.stack
          /\ entering' = pos.entering
          /\ pc' = IF pos.stack # <<>> THEN "render" ELSE "done"
    /\ UNCHANGED <<source, parsed, nodes, fencedBlocks, idx, runs, calls, err>>

Next ==
    \/ TransformBegin
    \/ TransformWalkCallback
    \/ TransformReplace
    \/ RenderBegin
    \/ RenderPipefence
    \/ RenderDefault

Spec == Init /\ [][Next]_vars

(***************************************************************************)
(* Definitions used to state the properties.                               *)
(***************************************************************************)
\* The children of p, following firstChild and then the next links.
RECURSIVE Chain(_, _, _)
Chain(ns, n, fuel) ==
    IF n = Nil \/ fuel = 0 THEN <<>> ELSE <<n>> \o Chain(ns, ns[n].next, fuel - 1)

ChildList(ns, p) == Chain(ns, ns[p].firstChild, Len(ns))

IndexOf(seq, x) == IF \E i \in 1..Len(seq) : seq[i] = x
                   THEN MinOf({i \in 1..Len(seq) : seq[i] = x}) ELSE 0

\* Fenced blocks of the parsed document.
Fenced == {n \in DOMAIN parsed : parsed[n].kind = "FencedCodeBlock"}

\* Fenced blocks of the parsed document whose language tag is registered.
Matching == {n \in Fenced : Language(parsed, source, n) \in PipeFuncKeys}

\* The content of a parsed fenced block: its lines, one after the other.
ContentOf(b) == Concat([i \in 1..Len(parsed[b].lines) |-> Value(source, parsed[b].lines[i])])

Tagged == {n \in DOMAIN nodes : nodes[n].kind = "PipefenceBlock"}

\* What was written for parsed block b, by its own renderer or by the hook
\* of a wrapper made from it.
WritesFor(b) ==
    LET mine == SelectSeq(w, LAMBDA r : nodes[r.node].orig = b)
    IN [i \in 1..Len(mine) |-> mine[i].bytes]

CallsFor(b) == SelectSeq(calls, LAMBDA c : nodes[c.node].orig = b)

\* Everything written so far.
Out == Concat([i \in 1..Len(w) |-> w[i].bytes])

\* The host's rendering of the parsed tree below n, without the extension.
RECURSIVE DefaultRendering(_)
DefaultRendering(n) ==
    LET kids == ChildList(parsed, n)
    IN HostRender(parsed, source, n, TRUE)
       \o Concat([i \in 1..Len(kids) |-> DefaultRendering(kids[i])])
       \o HostRender(parsed, source, n, FALSE)

\* The render hook is about to be called, entering, for a tagged node whose
\* PipeFunc fails.
AtFailingHook ==
    /\ pc = "render"
    /\ entering
    /\ stack[Len(stack)] \in Tagged
    /\ LET b == nodes[stack[Len(stack)]].orig
       IN /\ b \in Matching
          /\ CallPipeFunc(Language(parsed, source, b), ContentOf(b)).err # ""

(***************************************************************************)
(* Properties.                                                             *)
(***************************************************************************)

\* C1: when a render pass completes, what was written for each fenced block
\* with a registered language tag is exactly the PipeFunc's return value for
\* the concatenation of its content lines, and nothing else.
C1_PipeOutputExact ==
    pc = "done" =>
        \A b \in Matching :
            WritesFor(b) = <<CallPipeFunc(Language(parsed, source, b), ContentOf(b)).out>>

\* C2: in a document with no fenced block whose language tag is registered,
\* the tree stays as parsed, no PipeFunc is called, and the completed output
\* is the host's default rendering.
C2_NoMatchDefault ==
    Matching = {} =>
        /\ nodes = parsed
        /\ calls = <<>>
        /\ pc = "done" => Out = DefaultRendering(Doc)

C2_Witness ==
    /\ Matching = {}
    /\ Fenced # {}
    /\ pc = "done"
    /\ Out # <<>>

\* C3: every node of the parsed tree other than a matching fenced block
\* stays in the tree with its kind, its parent and its index among its
\* parent's children, and no PipeFunc is ever called for it.
C3_UnmatchedUntouched ==
    \A n \in DOMAIN parsed \ ({Doc} \cup Matching) :
        /\ nodes[n].kind = parsed[n].kind
        /\ nodes[n].parent = parsed[n].parent
        /\ IndexOf(ChildList(nodes, parsed[n].parent), n)
              = IndexOf(ChildList(parsed, parsed[n].parent), n)
        /\ CallsFor(n) = <<>>

\* C4: a hook call whose PipeFunc fails writes nothing, returns WalkStop
\* with an error carrying the language tag and the cause, and ends the
\* render walk: no call and no write follows it.
C4_FailureHalts ==
    [][/\ pc # "failed"
       /\ AtFailingHook =>
            LET b == nodes[stack[Len(stack)]].orig
            IN /\ w' = w
               /\ Len(calls') = Len(calls) + 1
               /\ last'.status = "WalkStop"
               /\ err' = [lang |-> Language(parsed, source, b), cause |-> "exit status 1"]
               /\ pc' = "failed"]_vars

C4_Witness ==
    /\ pc = "failed"
    /\ last.branch = "fail"
    /\ err.lang = Boom
    /\ Len(calls) = 1

\* C5: after a Transform pass every parent has as many children as before,
\* in the same order, each matching block replaced at its index by a wrapper
\* made from it whose parent is that parent, and lastChild is the last of
\* them.
C5_OrderPreserved ==
    (pc = "parsed" /\ runs >= 1) =>
        \A p \in DOMAIN parsed :
            LET old == ChildList(parsed, p)
                new == ChildList(nodes, p)
            IN /\ Len(new) = Len(old)
               /\ \A i \in 1..Len(old) :
                     /\ i <= Len(new)
                     /\ nodes[new[i]].parent = p
                     /\ IF old[i] \in Matching
                        THEN new[i] \in Tagged /\ nodes[new[i]].orig = old[i]
                        ELSE new[i] = old[i]
               /\ nodes[p].lastChild = (IF old = <<>> THEN Nil ELSE new[Len(new)])

\* C6: once a Transform pass has completed, a further pass changes nothing
\* in the tree and collects no tagged node.
C6_SecondPassNoChange ==
    [][runs >= 1 =>
        /\ nodes' = nodes
        /\ \A i \in 1..Len(fencedBlocks') : fencedBlocks'[i] \notin Tagged]_vars

C6_Witness ==
    /\ runs = 2
    /\ pc = "parsed"
    /\ nodes[Doc].firstChild \in Tagged

\* C7: every tagged node has a registered language tag, and its language tag
\* and content lines are those of the fenced block it was made from; the
\* hook never returns through its lookup-miss branch.
C7_TaggedHaveTransformer ==
    /\ \A n \in Tagged :
          LET b == nodes[n].orig
          IN /\ b \in Fenced
             /\ Language(nodes, source, n) \in PipeFuncKeys
             /\ Language(nodes, source, n) = Language(parsed, source, b)
             /\ nodes[n].lines = parsed[b].lines
    /\ last.branch # "miss"

C7_Witness ==
    /\ pc = "done"
    /\ \E n \in Tagged : nodes[n].lines # <<>> /\ \E i \in 1..Len(w) : w[i].node = n

\* C8: when a render pass completes, the PipeFunc was called exactly once
\* and its output written exactly once for each matching fenced block; a
\* leaving call of the hook returns WalkContinue.
C8_ExactlyOnce ==
    /\ pc = "done" => \A b \in Matching : Len(CallsFor(b)) = 1 /\ Len(WritesFor(b)) = 1
    /\ last.branch = "leave" => last.status = "WalkContinue"

\* C9: while Transform's walk is running the tree does not change and the
\* callback returns WalkContinue and no error, so the walk never ends in the
\* fatal branch; the tree changes only in the loop that follows the walk.
C9_TwoPhase ==
    [][/\ pc = "walk" =>
            /\ nodes' = nodes
            /\ last'.status = "WalkContinue"
            /\ last'.err = NoError
            /\ pc' # "fatal"
       /\ nodes' # nodes => pc = "replace" /\ stack = <<>>]_vars

C9_Witness ==
    /\ pc = "walk"
    /\ \E i \in 1..Len(fencedBlocks) : fencedBlocks[i] \in Matching
    /\ Len(stack) >= 2

\* C10: the collected list holds no fenced block twice.
C10_CollectedOnce ==
    \A i, j \in 1..Len(fencedBlocks) : i # j => fencedBlocks[i] # fencedBlocks[j]

====
